---------------------------- MODULE Spec2Model ----------------------------
(***************************************************************************)
(* The recursive-descent parser of src/src/parser.cpp as a state machine.  *)
(* The C++ call stack is the variable `stack` (one frame per active        *)
(* function, with its locals and the label it resumes at); `pos` is the    *)
(* lexer's read position in `tokens`.  A `return f(x);` whose value is     *)
(* returned unchanged replaces the caller's frame by the callee's.         *)
(***************************************************************************)
EXTENDS Naturals, Sequences, FiniteSets

VARIABLES tokens, entry, pos, stack, ret, err, status

vars == <<tokens, entry, pos, stack, ret, err, status>>

(***************************************************************************)
(* Bounds of the explored inputs.                                          *)
(***************************************************************************)
MaxLen == 3
MaxOps == 3
MaxItems == 3
MaxCalls == 3

(***************************************************************************)
(* Tokens and the lexer interface.                                         *)
(***************************************************************************)
Tok(type, value) == [type |-> type, value |-> value]

EOFTok == Tok("", "")

peek(p) == IF p <= Len(tokens) THEN tokens[p] ELSE EOFTok

eof(p) == p > Len(tokens)

next(p) == IF p <= Len(tokens) THEN p + 1 ELSE p

Digits == <<"1", "2", "3", "4", "5", "6", "7", "8", "9">>

stoi(s) == CHOOSE n \in 1..Len(Digits) : Digits[n] = s

CharCode(s) == CASE s = "a" -> 97 [] s = "b" -> 98 [] OTHER -> 0

(***************************************************************************)
(* The precedence table.  The operator tokens of the streams below are     *)
(* operators of the table (OP_PRECEDENCE.at throws on any other).          *)
(***************************************************************************)
Operators == {"=", "||", "&&", "<", ">", "<=", ">=", "==", "!=", "+", "-", "*", "/", "%"}

OP_PRECEDENCE(op) ==
    CASE op = "=" -> 1
      [] op = "||" -> 2
      [] op = "&&" -> 3
      [] op \in {"<", ">", "<=", ">=", "==", "!="} -> 7
      [] op \in {"+", "-"} -> 10
      [] op \in {"*", "/", "%"} -> 20

(***************************************************************************)
(* AST nodes.  Null is the C++ nullptr.  A field name holds values of one  *)
(* kind only, so that any two nodes can be compared.                       *)
(***************************************************************************)
Null == [t |-> "null"]

Number(n) == [t |-> "Number", num |-> n]

Boolean(b) == [t |-> "Boolean", flag |-> b]

Character(c) == [t |-> "Character", code |-> c]

String(s) == [t |-> "String", text |-> s]

Identifier(name) == [t |-> "Identifier", name |-> name]

Assign(op, left, right) == [t |-> "Assign", op |-> op, left |-> left, right |-> right]

Binary(op, left, right) == [t |-> "Binary", op |-> op, left |-> left, right |-> right]

If(cond, then, els) == [t |-> "If", cond |-> cond, then |-> then, els |-> els]

Closure(params, body) == [t |-> "Closure", names |-> params, body |-> body]

Function(name, params, body) == [t |-> "Function", name |-> name, params |-> params, body |-> body]

Call(func, args) == [t |-> "Call", func |-> func, args |-> args]

AST(list) == [t |-> "AST", list |-> list]

Program(prog) == [t |-> "Program", prog |-> prog]

Parameter(type, name) == [t |-> "Parameter", type |-> type, name |-> name]

\* a std::vector returned by delimited, and a std::string returned by parse_varname
List(items) == [t |-> "list", items |-> items]

Name(value) == [t |-> "name", text |-> value]

\* the strings of a std::vector<std::string>
Names(items) == [i \in 1..Len(items) |-> items[i].text]

(***************************************************************************)
(* Diagnostics: the message input->error is called with.                   *)
(***************************************************************************)
NoErr == [kind |-> "none", arg |-> ""]

Unexpected(p) == [kind |-> "Unexpected token", arg |-> peek(p).value]

TokenExpected(ch) == [kind |-> "Token expected", arg |-> ch]

KeywordExpected(kw) == [kind |-> "Keyword expected", arg |-> kw]

NameExpected(what) == [kind |-> what, arg |-> ""]

(***************************************************************************)
(* Token predicates.                                                       *)
(***************************************************************************)
is_punc(p, ch) == peek(p).type # "" /\ peek(p).type = "punc" /\ (ch = "" \/ peek(p).value = ch)

is_kw(p, kw) == peek(p).type # "" /\ peek(p).type = "kw" /\ (kw = "" \/ kw = peek(p).value)

is_op(p, op) == peek(p).type # "" /\ peek(p).type = "op" /\ (op = "" \/ peek(p).value = op)

(***************************************************************************)
(* Frames: the functions of the parser as they are entered.                *)
(***************************************************************************)
maybe_call(call) == [fn |-> "maybe_call", pc |-> "entry", call |-> call]

parse_atom == maybe_call("atom")

parse_expr == maybe_call("expr")

atom_lambda == [fn |-> "atom_lambda", pc |-> "entry"]

expr_lambda == [fn |-> "expr_lambda", pc |-> "entry"]

maybe_binary(left, prec) ==
    [fn |-> "maybe_binary", pc |-> "entry", left |-> left, prec |-> prec, op |-> "", tokprec |-> 0]

delimited(start, end, separator, parser) ==
    [fn |-> "delimited", pc |-> "entry", start |-> start, end |-> end, separator |-> separator,
     parser |-> parser, list |-> <<>>, first |-> TRUE, mark |-> 0]

parse_varname == [fn |-> "parse_varname", pc |-> "entry"]

parse_param == [fn |-> "parse_param", pc |-> "entry"]

parse_closure == [fn |-> "parse_closure", pc |-> "entry", order |-> "", got |-> Null]

parse_call(func) == [fn |-> "parse_call", pc |-> "entry", func |-> func]

parse_if == [fn |-> "parse_if", pc |-> "entry", cond |-> Null, then |-> Null]

parse_ext == [fn |-> "parse_ext", pc |-> "entry", funcname |-> ""]

parse_func == [fn |-> "parse_func", pc |-> "entry", funcname |-> "", params |-> <<>>]

parse_prog == [fn |-> "parse_prog", pc |-> "entry"]

parse_toplevel == [fn |-> "parse_toplevel", pc |-> "loop", ast |-> <<>>, mark |-> 0]

ItemParser(parser) ==
    CASE parser = "parse_expr" -> parse_expr
      [] parser = "parse_varname" -> parse_varname
      [] parser = "parse_param" -> parse_param

EntryFrame(e) ==
    CASE e = "parse_toplevel" -> parse_toplevel
      [] e = "parse_expr" -> parse_expr
      [] e = "parse_atom" -> parse_atom
      [] e = "parse_prog" -> parse_prog

(***************************************************************************)
(* Control transfer.                                                       *)
(***************************************************************************)
top == stack[Len(stack)]

Rest == SubSeq(stack, 1, Len(stack) - 1)

At(fn, pc) == status = "running" /\ top.fn = fn /\ top.pc = pc

Step(p, s, r) ==
    /\ pos' = p
    /\ stack' = s
    /\ ret' = r
    /\ status' = IF Len(s) = 0 THEN "done" ELSE "running"
    /\ UNCHANGED <<tokens, entry, err>>

\* input->error(msg): the parse is abandoned, nothing is returned
Fail(p, e) ==
    /\ pos' = p
    /\ stack' = <<>>
    /\ ret' = Null
    /\ err' = e
    /\ status' = "error"
    /\ UNCHANGED <<tokens, entry>>

Goto(p, f) == Step(p, Append(Rest, f), ret)

Invoke(p, f, callee) == Step(p, Append(Append(Rest, f), callee), ret)

Return(p, v) == Step(p, Rest, v)

(***************************************************************************)
(* skip_punc and skip_kw: the lookahead is consumed if it matches (ok, and  *)
(* the position after it), else what was expected is reported (err).       *)
(***************************************************************************)
skip_punc(p, ch) ==
    IF is_punc(p, ch) THEN [ok |-> TRUE, pos |-> next(p), err |-> NoErr]
    ELSE [ok |-> FALSE, pos |-> p, err |-> TokenExpected(ch)]

skip_kw(p, kw) ==
    IF is_kw(p, kw) THEN [ok |-> TRUE, pos |-> next(p), err |-> NoErr]
    ELSE [ok |-> FALSE, pos |-> p, err |-> KeywordExpected(kw)]

parse_bool(p) == Boolean(peek(p).value = "true")

(***************************************************************************)
(* maybe_binary(left, prec)                                                *)
(***************************************************************************)
\* faulty variant: an operator of equal precedence is taken too (>= for >)
maybe_binary_entry_geq ==
    /\ At("maybe_binary", "entry")
    /\ IF is_op(pos, "") /\ OP_PRECEDENCE(peek(pos).value) >= top.prec
       THEN Invoke(next(pos),
                   [top EXCEPT !.pc = "atom", !.op = peek(pos).value,
                               !.tokprec = OP_PRECEDENCE(peek(pos).value)],
                   parse_atom)
       ELSE Return(pos, top.left)

maybe_binary_entry ==
    /\ At("maybe_binary", "entry")
    /\ IF is_op(pos, "") /\ OP_PRECEDENCE(peek(pos).value) > top.prec
       THEN Invoke(next(pos),
                   [top EXCEPT !.pc = "atom", !.op = peek(pos).value,
                               !.tokprec = OP_PRECEDENCE(peek(pos).value)],
                   parse_atom)
       ELSE Return(pos, top.left)

\* faulty variant: the right operand climbs from the caller's floor, not the operator's
maybe_binary_atom_floor ==
    /\ At("maybe_binary", "atom")
    /\ Invoke(pos, [top EXCEPT !.pc = "right"], maybe_binary(ret, top.prec))

maybe_binary_atom ==
    /\ At("maybe_binary", "atom")
    /\ Invoke(pos, [top EXCEPT !.pc = "right"], maybe_binary(ret, top.tokprec))

maybe_binary_right ==
    /\ At("maybe_binary", "right")
    /\ Goto(pos, maybe_binary(IF top.op = "="
                              THEN Assign(top.op, top.left, ret)
                              ELSE Binary(top.op, top.left, ret),
                              top.prec))

(***************************************************************************)
(* delimited(start, end, separator, parser).  `mark` remembers the read    *)
(* position at which the previous iteration of the loop began.             *)
(***************************************************************************)
delimited_entry ==
    /\ At("delimited", "entry")
    /\ LET s == skip_punc(pos, top.start)
       IN  IF s.ok THEN Goto(s.pos, [top EXCEPT !.pc = "loop"]) ELSE Fail(s.pos, s.err)

\* faulty variant: the closing delimiter is not looked for again after the separator
delimited_loop_one_check ==
    /\ At("delimited", "loop")
    /\ LET end == [top EXCEPT !.pc = "end"]
           Item(q) == Invoke(q, [top EXCEPT !.pc = "item", !.first = FALSE, !.mark = pos],
                             ItemParser(top.parser))
       IN  IF eof(pos) THEN Goto(pos, end)
           ELSE IF is_punc(pos, top.end) THEN Goto(pos, end)
           ELSE IF top.first THEN Item(pos)
           ELSE LET s == skip_punc(pos, top.separator)
                IN  IF s.ok THEN Item(s.pos) ELSE Fail(s.pos, s.err)

delimited_loop ==
    /\ At("delimited", "loop")
    /\ LET end == [top EXCEPT !.pc = "end"]
           Item(q) == IF is_punc(q, top.end)
                      THEN Goto(q, [end EXCEPT !.first = FALSE])
                      ELSE Invoke(q, [top EXCEPT !.pc = "item", !.first = FALSE, !.mark = pos],
                                  ItemParser(top.parser))
       IN  IF eof(pos) THEN Goto(pos, end)
           ELSE IF is_punc(pos, top.end) THEN Goto(pos, end)
           ELSE IF top.first THEN Item(pos)
           ELSE LET s == skip_punc(pos, top.separator)
                IN  IF s.ok THEN Item(s.pos) ELSE Fail(s.pos, s.err)

delimited_item ==
    /\ At("delimited", "item")
    /\ Goto(pos, [top EXCEPT !.pc = "loop",
                             !.list = Append(@, ret)])

delimited_end ==
    /\ At("delimited", "end")
    /\ LET s == skip_punc(pos, top.end)
       IN  IF s.ok THEN Return(s.pos, List(top.list)) ELSE Fail(s.pos, s.err)

parse_varname_entry ==
    /\ At("parse_varname", "entry")
    /\ LET name == peek(pos)
       IN  IF name.type # "var"
           THEN Fail(next(pos), NameExpected("Variable name expected"))
           ELSE Return(next(pos), Name(name.value))

parse_param_entry ==
    /\ At("parse_param", "entry")
    /\ LET typetok == peek(pos)
           p1 == next(pos)
       IN  IF typetok.type # "var"
           THEN Fail(p1, NameExpected("Type name expected"))
           ELSE IF peek(p1).type = "var"
                THEN Return(next(p1), Parameter(typetok.value, peek(p1).value))
                ELSE Return(p1, Parameter(typetok.value, ""))

(***************************************************************************)
(* parse_closure: the two constructor arguments, delimited(...) and        *)
(* parse_prog(), are evaluated in an order the language leaves to the      *)
(* compiler.                                                               *)
(***************************************************************************)
parse_closure_entry ==
    /\ At("parse_closure", "entry")
    /\ \E order \in {"LR", "RL"} :
          Invoke(pos, [top EXCEPT !.pc = "first", !.order = order],
                 IF order = "LR" THEN delimited("(", ")", ",", "parse_varname") ELSE parse_prog)

\* faulty variant: the body of a closure is parsed as an expression
parse_closure_first_expr_body ==
    /\ At("parse_closure", "first")
    /\ Invoke(pos, [top EXCEPT !.pc = "second", !.got = ret],
              IF top.order = "LR" THEN parse_expr ELSE delimited("(", ")", ",", "parse_varname"))

parse_closure_first ==
    /\ At("parse_closure", "first")
    /\ Invoke(pos, [top EXCEPT !.pc = "second", !.got = ret],
              IF top.order = "LR" THEN parse_prog ELSE delimited("(", ")", ",", "parse_varname"))

parse_closure_second ==
    /\ At("parse_closure", "second")
    /\ Return(pos, IF top.order = "LR"
                   THEN Closure(Names(top.got.items), ret)
                   ELSE Closure(Names(ret.items), top.got))

(***************************************************************************)
(* parse_call and maybe_call                                               *)
(***************************************************************************)
parse_call_entry ==
    /\ At("parse_call", "entry")
    /\ Invoke(pos, [top EXCEPT !.pc = "args"], delimited("(", ")", ",", "parse_expr"))

parse_call_args ==
    /\ At("parse_call", "args")
    /\ Return(pos, Call(top.func, ret.items))

maybe_call_entry ==
    /\ At("maybe_call", "entry")
    /\ Invoke(pos, [top EXCEPT !.pc = "result"],
              IF top.call = "atom" THEN atom_lambda ELSE expr_lambda)

\* faulty variant: the result of a call is looked at again for a further argument list
maybe_call_result_again ==
    /\ At("maybe_call", "result")
    /\ IF is_punc(pos, "(") THEN Invoke(pos, top, parse_call(ret)) ELSE Return(pos, ret)

maybe_call_result ==
    /\ At("maybe_call", "result")
    /\ IF is_punc(pos, "(") THEN Goto(pos, parse_call(ret)) ELSE Return(pos, ret)

(***************************************************************************)
(* parse_if                                                                *)
(***************************************************************************)
parse_if_entry ==
    /\ At("parse_if", "entry")
    /\ LET s == skip_kw(pos, "if")
       IN  IF s.ok THEN Invoke(s.pos, [top EXCEPT !.pc = "cond"], parse_expr)
           ELSE Fail(s.pos, s.err)

parse_if_cond ==
    /\ At("parse_if", "cond")
    /\ Invoke(pos, [top EXCEPT !.pc = "then", !.cond = ret], parse_expr)

parse_if_then ==
    /\ At("parse_if", "then")
    /\ IF is_kw(pos, "else")
       THEN Invoke(next(pos), [top EXCEPT !.pc = "els", !.then = ret], parse_expr)
       ELSE Return(pos, If(top.cond, ret, Null))

parse_if_els ==
    /\ At("parse_if", "els")
    /\ Return(pos, If(top.cond, top.then, ret))

(***************************************************************************)
(* parse_ext and parse_func                                                *)
(***************************************************************************)
parse_ext_entry ==
    /\ At("parse_ext", "entry")
    /\ LET s == skip_kw(pos, "ext")
           funcname == peek(s.pos)
       IN  IF ~s.ok THEN Fail(s.pos, s.err)
           ELSE IF funcname.type # "var"
           THEN Fail(next(s.pos), NameExpected("Function name expected"))
           ELSE Invoke(next(s.pos),
                       [top EXCEPT !.pc = "params", !.funcname = funcname.value],
                       delimited("(", ")", ",", "parse_param"))

parse_ext_params ==
    /\ At("parse_ext", "params")
    /\ Return(pos, Function(top.funcname, ret.items, Null))

parse_func_entry ==
    /\ At("parse_func", "entry")
    /\ LET p1 == next(pos)
           tok == peek(p1)
           p2 == next(p1)
       IN  IF is_punc(p2, "(")
           THEN Invoke(p2, [top EXCEPT !.pc = "params", !.funcname = tok.value],
                       delimited("(", ")", ",", "parse_param"))
           ELSE Invoke(p2, [top EXCEPT !.pc = "body", !.funcname = tok.value], parse_expr)

parse_func_params ==
    /\ At("parse_func", "params")
    /\ Invoke(pos, [top EXCEPT !.pc = "body", !.params = ret.items], parse_expr)

parse_func_body ==
    /\ At("parse_func", "body")
    /\ Return(pos, Function(top.funcname, top.params, ret))

(***************************************************************************)
(* parse_atom: the lambda handed to maybe_call                             *)
(***************************************************************************)
\* faulty variant: an identifier is looked at (peek) but not consumed (next)
atom_lambda_entry_peek ==
    /\ At("atom_lambda", "entry")
    /\ LET tok == peek(pos)
           q == next(pos)
       IN  IF is_kw(pos, "ext") THEN Goto(pos, parse_ext)
           ELSE IF is_kw(pos, "def") THEN Goto(pos, parse_func)
           ELSE IF is_punc(pos, "(") THEN Invoke(q, [top EXCEPT !.pc = "paren"], parse_expr)
           ELSE IF is_punc(pos, "{") THEN Goto(pos, parse_prog)
           ELSE IF is_kw(pos, "if") THEN Goto(pos, parse_if)
           ELSE IF is_kw(pos, "true") \/ is_kw(pos, "false") THEN Return(q, parse_bool(pos))
           ELSE IF is_kw(pos, "cls") THEN Goto(q, parse_closure)
           ELSE IF tok.type = "var" THEN Return(pos, Identifier(tok.value))
           ELSE IF tok.type = "num" THEN Return(q, Number(stoi(tok.value)))
           ELSE IF tok.type = "char" THEN Return(q, Character(CharCode(tok.value)))
           ELSE IF tok.type = "str" THEN Return(q, String(tok.value))
           ELSE Fail(q, Unexpected(q))

atom_lambda_entry ==
    /\ At("atom_lambda", "entry")
    /\ LET tok == peek(pos)
           q == next(pos)
       IN  IF is_kw(pos, "ext") THEN Goto(pos, parse_ext)
           ELSE IF is_kw(pos, "def") THEN Goto(pos, parse_func)
           ELSE IF is_punc(pos, "(") THEN Invoke(q, [top EXCEPT !.pc = "paren"], parse_expr)
           ELSE IF is_punc(pos, "{") THEN Goto(pos, parse_prog)
           ELSE IF is_kw(pos, "if") THEN Goto(pos, parse_if)
           ELSE IF is_kw(pos, "true") \/ is_kw(pos, "false") THEN Return(q, parse_bool(pos))
           ELSE IF is_kw(pos, "cls") THEN Goto(q, parse_closure)
           ELSE IF tok.type = "var" THEN Return(q, Identifier(tok.value))
           ELSE IF tok.type = "num" THEN Return(q, Number(stoi(tok.value)))
           ELSE IF tok.type = "char" THEN Return(q, Character(CharCode(tok.value)))
           ELSE IF tok.type = "str" THEN Return(q, String(tok.value))
           ELSE Fail(q, Unexpected(q))

atom_lambda_paren ==
    /\ At("atom_lambda", "paren")
    /\ LET s == skip_punc(pos, ")")
       IN  IF s.ok THEN Return(s.pos, ret) ELSE Fail(s.pos, s.err)

(***************************************************************************)
(* parse_expr: the lambda handed to maybe_call                             *)
(***************************************************************************)
expr_lambda_entry ==
    /\ At("expr_lambda", "entry")
    /\ Invoke(pos, [top EXCEPT !.pc = "atom"], parse_atom)

expr_lambda_atom ==
    /\ At("expr_lambda", "atom")
    /\ Goto(pos, maybe_binary(ret, 0))

(***************************************************************************)
(* parse_prog and parse_toplevel                                           *)
(***************************************************************************)
parse_prog_entry ==
    /\ At("parse_prog", "entry")
    /\ Invoke(pos, [top EXCEPT !.pc = "vars"], delimited("{", "}", ";", "parse_expr"))

\* faulty variant: the empty list is wrapped like any other
parse_prog_vars_always ==
    /\ At("parse_prog", "vars")
    /\ Return(pos, Program(AST(ret.items)))

parse_prog_vars ==
    /\ At("parse_prog", "vars")
    /\ IF Len(ret.items) = 0 THEN Return(pos, Null) ELSE Return(pos, Program(AST(ret.items)))

parse_toplevel_loop ==
    /\ At("parse_toplevel", "loop")
    /\ IF eof(pos)
       THEN Return(pos, AST(top.ast))
       ELSE Invoke(pos, [top EXCEPT !.pc = "push", !.mark = pos], parse_expr)

\* faulty variant: a `;` between statements is consumed if present, not required
parse_toplevel_push_lenient ==
    /\ At("parse_toplevel", "push")
    /\ LET f == [top EXCEPT !.pc = "loop", !.ast = Append(@, ret)]
       IN  IF is_punc(pos, ";") THEN Goto(next(pos), f) ELSE Goto(pos, f)

parse_toplevel_push ==
    /\ At("parse_toplevel", "push")
    /\ LET f == [top EXCEPT !.pc = "loop", !.ast = Append(@, ret)]
           s == skip_punc(pos, ";")
       IN  IF ~eof(pos)
           THEN IF s.ok THEN Goto(s.pos, f) ELSE Fail(s.pos, s.err)
           ELSE Goto(pos, f)

(***************************************************************************)
(* The token streams the parser is run on, and the function each is        *)
(* handed to.                                                              *)
(***************************************************************************)
P(ch) == Tok("punc", ch)

K(kw) == Tok("kw", kw)

O(op) == Tok("op", op)

V(name) == Tok("var", name)

N(i) == Tok("num", Digits[i])

SeqsUpTo(S, n) == UNION {[1..k -> S] : k \in 0..n}

RECURSIVE Flatten(_)
Flatten(ss) == IF Len(ss) = 0 THEN <<>> ELSE Head(ss) \o Flatten(Tail(ss))

\* the alphabet of the short streams
Alphabet ==
    {N(1), V("a"), O("+"), P("("), P(")"), P("{"), P("}"), P(","), P(";"),
     K("if"), K("else"), K("def"), K("ext"), K("cls")}

\* atom (op atom)*: the i-th atom is the number i
Chain(ops) ==
    [i \in 1..(2 * Len(ops) + 1) |-> IF i % 2 = 1 THEN N((i + 1) \div 2) ELSE O(ops[i \div 2])]

\* one or two operators of every precedence level, in chains of up to MaxOps
\* operators; every operator of the table in chains of up to two
ChainOps == {"||", "&&", "<", "==", "+", "-", "*", "/"}

\* a = b = v
Idents == {"a", "b"}

Values == {N(1), V("c")}

AssignChain(a, b, v) == <<V(a), O("="), V(b), O("="), v>>

AssignChains == {AssignChain(a, b, v) : a \in Idents, b \in Idents, v \in Values}

\* f ( i1 , ... , in  followed by a closing, which may be missing
Items == {N(1), N(2), V("a")}

Closings == {<<P(")")>>, <<P(","), P(")")>>, <<P(","), P(","), P(")")>>, <<>>, <<P(",")>>}

Separated(items, sep) ==
    [i \in 1..(IF Len(items) = 0 THEN 0 ELSE 2 * Len(items) - 1) |->
        IF i % 2 = 1 THEN items[(i + 1) \div 2] ELSE sep]

ArgList(items, closing) == <<V("f"), P("(")>> \o Separated(items, P(",")) \o closing

ArgLists == {ArgList(items, c) : items \in SeqsUpTo(Items, MaxItems), c \in Closings}

\* { e1 ; ... ; en }  and  { e1 ; ... ; en ; }
Block(items, trailing) ==
    <<P("{")>> \o Separated(items, P(";")) \o (IF trailing THEN <<P(";")>> ELSE <<>>) \o <<P("}")>>

Blocks == {Block(items, t) : items \in SeqsUpTo(Items, MaxItems), t \in BOOLEAN}

\* top-level statements, each followed by `;` or not
Stmts == {<<N(1)>>, <<V("a")>>, <<P("("), N(2), P(")")>>}

TopLevel(stmts, semi) ==
    Flatten([i \in 1..Len(stmts) |-> stmts[i] \o (IF semi[i] THEN <<P(";")>> ELSE <<>>)])

TopLevels ==
    UNION {{TopLevel(stmts, semi) : semi \in [1..Len(stmts) -> BOOLEAN]} :
              stmts \in SeqsUpTo(Stmts, MaxItems)}

\* cls ( params ) body
Bodies == {<<V("x")>>, <<P("{"), V("x"), P("}")>>, <<P("{"), P("}")>>, <<N(1)>>}

ClosureTokens(params, body) ==
    <<K("cls"), P("(")>> \o Separated([i \in 1..Len(params) |-> V(params[i])], P(",")) \o <<P(")")>> \o body

Closures == {ClosureTokens(ps, b) : ps \in SeqsUpTo({"x", "y"}, 2), b \in Bodies}

\* def name [(params)] body
ParamLists == {<<>>, <<P("("), P(")")>>, <<P("("), V("int"), V("x"), P(")")>>}

DefTokens(params, body) == <<K("def"), V("f")>> \o params \o body

Defs == {DefTokens(ps, b) : ps \in ParamLists, b \in Bodies}

\* f followed by k empty argument lists
Calls(k) == <<V("f")>> \o Flatten([i \in 1..k |-> <<P("("), P(")")>>])

CallChains == {Calls(k) : k \in 0..MaxCalls}

\* further forms of the grammar
Forms ==
    {<<K("if"), K("true"), N(1), K("else"), N(2)>>,
     <<K("if"), K("false"), N(1)>>,
     <<K("ext"), V("f"), P("("), V("int"), V("x"), P(")")>>,
     <<K("ext"), V("f"), P("("), V("int"), P(","), V("int"), V("y"), P(")")>>,
     <<Tok("char", "a")>>,
     <<Tok("str", "hello")>>,
     <<P("("), N(1), O("+"), N(2), P(")"), O("*"), N(3)>>}

\* The streams: every stream of at most MaxLen tokens of the alphabet and the
\* top-level statement lists for parse_toplevel; the operator chains (up to
\* MaxOps operators of ChainOps, up to two of all Operators) and the call
\* forms for parse_expr; closures and definitions for parse_atom; blocks for
\* parse_prog.
Init ==
    /\ \/ entry = "parse_toplevel" /\ \E k \in 0..MaxLen : tokens \in [1..k -> Alphabet]
       \/ entry = "parse_toplevel" /\ tokens \in TopLevels \cup Forms
       \/ entry = "parse_expr" /\ \E k \in 0..MaxOps : \E ops \in [1..k -> ChainOps] : tokens = Chain(ops)
       \/ entry = "parse_expr" /\ \E k \in 0..2 : \E ops \in [1..k -> Operators] : tokens = Chain(ops)
       \/ entry = "parse_expr" /\ tokens \in AssignChains \cup ArgLists \cup CallChains \cup Forms
       \/ entry = "parse_atom" /\ tokens \in Closures \cup Defs
       \/ entry = "parse_prog" /\ tokens \in Blocks
    /\ pos = 1
    /\ stack = <<EntryFrame(entry)>>
    /\ ret = Null
    /\ err = NoErr
    /\ status = "running"

Next ==
    \/ parse_toplevel_loop
    \/ parse_toplevel_push
    \/ parse_prog_entry
    \/ parse_prog_vars
    \/ maybe_call_entry
    \/ maybe_call_result
    \/ parse_call_entry
    \/ parse_call_args
    \/ expr_lambda_entry
    \/ expr_lambda_atom
    \/ atom_lambda_entry
    \/ atom_lambda_paren
    \/ maybe_binary_entry
    \/ maybe_binary_atom
    \/ maybe_binary_right
    \/ delimited_entry
    \/ delimited_loop
    \/ delimited_item
    \/ delimited_end
    \/ parse_varname_entry
    \/ parse_param_entry
    \/ parse_closure_entry
    \/ parse_closure_first
    \/ parse_closure_second
    \/ parse_if_entry
    \/ parse_if_cond
    \/ parse_if_then
    \/ parse_if_els
    \/ parse_ext_entry
    \/ parse_ext_params
    \/ parse_func_entry
    \/ parse_func_params
    \/ parse_func_body

Spec == Init /\ [][Next]_vars

\* the scheduling of a sequential program: a step that can be taken is taken
FairSpec == Spec /\ WF_vars(Next)

(***************************************************************************)
(* What the properties below refer to.                                     *)
(***************************************************************************)
Finished == status # "running"

AllConsumed == pos = Len(tokens) + 1

\* the node a single-token atom stands for
NodeOf(tok) == IF tok.type = "var" THEN Identifier(tok.value) ELSE Number(stoi(tok.value))

NodesOf(items) == [i \in 1..Len(items) |-> NodeOf(items[i])]

\* the lambda of parse_expr, maybe_binary(parse_atom(), 0), has just returned
\* its value to the outermost parse_expr
LambdaReturned ==
    /\ status = "running"
    /\ Len(stack) = 1
    /\ top.fn = "maybe_call" /\ top.call = "expr" /\ top.pc = "result"

IsChain(toks) ==
    /\ Len(toks) % 2 = 1
    /\ \A i \in 1..Len(toks) :
          IF i % 2 = 1 THEN toks[i].type = "num"
          ELSE toks[i].type = "op" /\ toks[i].value \in Operators \ {"="}

Min(S) == CHOOSE x \in S : \A y \in S : x <= y

Max(S) == CHOOSE x \in S : \A y \in S : x >= y

\* The reference parser: the root is the last of the operators of lowest
\* table value (higher binds tighter, equal values group left to right).
RECURSIVE Reference(_)
Reference(toks) ==
    IF Len(toks) = 1 THEN NodeOf(toks[1])
    ELSE LET ops == {i \in 1..Len(toks) : i % 2 = 0}
             low == Min({OP_PRECEDENCE(toks[i].value) : i \in ops})
             root == Max({i \in ops : OP_PRECEDENCE(toks[i].value) = low})
         IN  Binary(toks[root].value,
                    Reference(SubSeq(toks, 1, root - 1)),
                    Reference(SubSeq(toks, root + 1, Len(toks))))

(***************************************************************************)
(* C1: on atom (op atom)* with non-assignment operators of the table,      *)
(* maybe_binary(parse_atom(), 0) raises nothing and returns the tree of    *)
(* the reference parser: a higher table value binds tighter, equal values  *)
(* group left to right.                                                    *)
(***************************************************************************)
C1_PrecedenceClimbing ==
    (entry = "parse_expr" /\ IsChain(tokens)) =>
        /\ err = NoErr
        /\ LambdaReturned => (ret = Reference(tokens) /\ AllConsumed)

\* 1+2*3 has been parsed to Binary(+, 1, Binary(*, 2, 3))
C1_Witness ==
    /\ entry = "parse_expr"
    /\ tokens = Chain(<<"+", "*">>)
    /\ LambdaReturned
    /\ ret = Binary("+", Number(1), Binary("*", Number(2), Number(3)))

(***************************************************************************)
(* C2 as stated: parse_expr on `a = b = v` returns                         *)
(* Assign(=, a, Assign(=, b, v)).                                          *)
(***************************************************************************)
C2_RightNested ==
    (entry = "parse_expr" /\ tokens \in AssignChains /\ status = "done") =>
        ret = Assign("=", NodeOf(tokens[1]), Assign("=", NodeOf(tokens[3]), NodeOf(tokens[5])))

(***************************************************************************)
(* C2 as amended: parse_expr on `a = b = v` raises nothing and returns     *)
(* Assign(=, Assign(=, a, b), v): the root's left child is the Assign      *)
(* node and its right child is the atom v.                                 *)
(***************************************************************************)
C2_LeftNested ==
    (entry = "parse_expr" /\ tokens \in AssignChains) =>
        /\ err = NoErr
        /\ status = "done" =>
              /\ ret = Assign("=", Assign("=", NodeOf(tokens[1]), NodeOf(tokens[3])), NodeOf(tokens[5]))
              /\ AllConsumed

C2_Witness ==
    /\ entry = "parse_expr"
    /\ tokens = AssignChain("a", "b", N(1))
    /\ status = "done"
    /\ ret.t = "Assign" /\ ret.left.t = "Assign" /\ ret.right = Number(1)

(***************************************************************************)
(* C3: for n >= 1 items, `f ( i1 , ... , in , )` and `f ( i1 , ... , in )` *)
(* both parse without error to Call(Identifier(f), [i1..in]); a second     *)
(* trailing separator is an error.                                         *)
(***************************************************************************)
C3_TrailingSeparator ==
    (entry = "parse_expr" /\ Finished /\ Len(tokens) >= 2 /\ tokens[2] = P("(")) =>
        \A items \in SeqsUpTo(Items, MaxItems) \ {<<>>} :
            /\ \A c \in {<<P(")")>>, <<P(","), P(")")>>} :
                  tokens = ArgList(items, c) =>
                      /\ status = "done" /\ err = NoErr /\ AllConsumed
                      /\ ret = Call(Identifier("f"), NodesOf(items))
            /\ tokens = ArgList(items, <<P(","), P(","), P(")")>>) => status = "error"

\* f(1,2,) has been parsed to Call(Identifier(f), [1,2])
C3_Witness ==
    /\ entry = "parse_expr"
    /\ tokens = ArgList(<<N(1), N(2)>>, <<P(","), P(")")>>)
    /\ status = "done"
    /\ ret = Call(Identifier("f"), <<Number(1), Number(2)>>)

(***************************************************************************)
(* C4 as stated: `cls ( x ) x` makes parse_atom return                     *)
(* Closure(["x"], Program(Block([Identifier(x)]))) with no diagnostic.     *)
(***************************************************************************)
C4_BareBody ==
    (entry = "parse_atom" /\ tokens = ClosureTokens(<<"x">>, <<V("x")>>) /\ Finished) =>
        /\ status = "done" /\ err = NoErr
        /\ ret = Closure(<<"x">>, Program(AST(<<Identifier("x")>>)))

(***************************************************************************)
(* C4 as amended: the body of a closure is a brace block.  `cls ( x ) x`   *)
(* makes parse_atom raise "Token '{' expected" and return nothing;         *)
(* `cls ( x ) { x }` returns Closure(["x"], Program(Block([Identifier(x)])))*)
(* when the parameter list is evaluated before the body, and raises the    *)
(* same diagnostic when the compiler evaluates the body first.             *)
(***************************************************************************)
C4_BlockBody ==
    (entry = "parse_atom" /\ Finished) =>
        /\ tokens = ClosureTokens(<<"x">>, <<V("x")>>) =>
              status = "error" /\ err = TokenExpected("{") /\ ret = Null
        /\ tokens = ClosureTokens(<<"x">>, <<P("{"), V("x"), P("}")>>) =>
              \/ /\ status = "done" /\ err = NoErr /\ AllConsumed
                 /\ ret = Closure(<<"x">>, Program(AST(<<Identifier("x")>>)))
              \/ status = "error" /\ err = TokenExpected("{") /\ ret = Null

\* cls ( x ) { x } has been parsed to a Closure
C4_Witness ==
    /\ entry = "parse_atom"
    /\ tokens = ClosureTokens(<<"x">>, <<P("{"), V("x"), P("}")>>)
    /\ status = "done"
    /\ ret = Closure(<<"x">>, Program(AST(<<Identifier("x")>>)))

(***************************************************************************)
(* C5: parse_prog never returns a Program that wraps an empty sequence:    *)
(* on `{}` it returns null, and on `{ e1 ; ... ; en }` with n >= 1 it      *)
(* returns Program(Block([e1..en])) in source order.                       *)
(***************************************************************************)
C5_NoEmptyProgram ==
    /\ ret.t = "Program" => Len(ret.prog.list) >= 1
    /\ (entry = "parse_prog" /\ Finished) =>
          \A items \in SeqsUpTo(Items, MaxItems) :
              tokens = Block(items, FALSE) =>
                  /\ status = "done" /\ err = NoErr /\ AllConsumed
                  /\ ret = IF Len(items) = 0 THEN Null ELSE Program(AST(NodesOf(items)))

\* {} has been parsed to null
C5_Witness ==
    /\ entry = "parse_prog"
    /\ tokens = Block(<<>>, FALSE)
    /\ status = "done"
    /\ ret = Null

\* the tokens the top-level statements above are made of
StmtAlphabet == {N(1), V("a"), P("("), N(2), P(")"), P(";")}

StmtNode(stmt) == IF Len(stmt) = 1 THEN NodeOf(stmt[1]) ELSE NodeOf(stmt[2])

\* the statements that are not the last and have no `;` after them
Unseparated(semi) == {i \in 1..(Len(semi) - 1) : ~semi[i]}

(***************************************************************************)
(* C6 as stated: `e1 ; ... ; en` and `e1 ; ... ; en ;` yield the same      *)
(* n-element top-level AST, and any two expressions with no `;` between    *)
(* them raise "Token ';' expected".                                        *)
(***************************************************************************)
C6_EverySemicolonRequired ==
    (entry = "parse_toplevel" /\ Finished /\ \A i \in 1..Len(tokens) : tokens[i] \in StmtAlphabet) =>
        \A stmts \in SeqsUpTo(Stmts, MaxItems) \ {<<>>} :
            \A semi \in [1..Len(stmts) -> BOOLEAN] :
                tokens = TopLevel(stmts, semi) =>
                    IF Unseparated(semi) = {}
                    THEN /\ status = "done" /\ err = NoErr /\ AllConsumed
                         /\ ret = AST([i \in 1..Len(stmts) |-> StmtNode(stmts[i])])
                    ELSE status = "error" /\ err = TokenExpected(";")

(***************************************************************************)
(* C6 as amended: `e1 ; ... ; en` and `e1 ; ... ; en ;` yield the same     *)
(* n-element top-level AST, and two expressions with no `;` between them   *)
(* raise "Token ';' expected" unless the second one begins with `(`        *)
(* (which the call-wrapper takes for an argument list of the first).       *)
(***************************************************************************)
C6_SemicolonRequired ==
    (entry = "parse_toplevel" /\ Finished /\ \A i \in 1..Len(tokens) : tokens[i] \in StmtAlphabet) =>
        \A stmts \in SeqsUpTo(Stmts, MaxItems) \ {<<>>} :
            \A semi \in [1..Len(stmts) -> BOOLEAN] :
                tokens = TopLevel(stmts, semi) =>
                    IF Unseparated(semi) = {}
                    THEN /\ status = "done" /\ err = NoErr /\ AllConsumed
                         /\ ret = AST([i \in 1..Len(stmts) |-> StmtNode(stmts[i])])
                    ELSE stmts[Min(Unseparated(semi)) + 1][1] # P("(") =>
                             status = "error" /\ err = TokenExpected(";")

\* `1 a` (no separator) has been rejected with "Token ';' expected"
C6_Witness ==
    /\ entry = "parse_toplevel"
    /\ tokens = TopLevel(<<<<N(1)>>, <<V("a")>>>>, <<FALSE, FALSE>>)
    /\ status = "error"
    /\ err = TokenExpected(";")

(***************************************************************************)
(* C7 as stated: when the stream ends inside an open argument list         *)
(* (`f(`, `f(1`, `f(1,`) the parse aborts with the end-of-stream           *)
(* diagnostic UnexpectedEndOfInput and returns no AST.                     *)
(***************************************************************************)
C7_EndOfInputDiagnostic ==
    (entry = "parse_expr" /\ Finished /\ Len(tokens) >= 2 /\ tokens[2] = P("(")) =>
        \A items \in SeqsUpTo(Items, MaxItems) :
            \A c \in {<<>>, <<P(",")>>} :
                (tokens = ArgList(items, c) /\ (Len(items) = 0 => c = <<>>)) =>
                    status = "error" /\ err.kind = "UnexpectedEndOfInput" /\ ret = Null

(***************************************************************************)
(* C8 as stated: every Function node the `def` path returns has a present  *)
(* (non-null) body, also for the body `{}`.                                *)
(***************************************************************************)
C8_DefBodyPresent ==
    (entry = "parse_atom" /\ tokens \in Defs /\ status = "done" /\ ret.t = "Function") =>
        ret.body # Null

(***************************************************************************)
(* C9 as stated: on `f ( ) ( )` parse_expr does not return                 *)
(* Call(Call(Identifier(f), []), []) and leaves the second argument list   *)
(* unconsumed.                                                             *)
(***************************************************************************)
C9_SingleWrap ==
    (entry = "parse_expr" /\ tokens = Calls(2) /\ status = "done") =>
        /\ ret # Call(Call(Identifier("f"), <<>>), <<>>)
        /\ pos = 4

RECURSIVE NestedCall(_)
NestedCall(k) == IF k = 0 THEN Identifier("f") ELSE Call(NestedCall(k - 1), <<>>)

(***************************************************************************)
(* C9 as amended: each call-wrapper wraps at most once, and parse_expr     *)
(* applies two of them (one in parse_atom, one around the whole            *)
(* expression): on `f ( ) ( )` parse_expr returns                          *)
(* Call(Call(Identifier(f), []), []) and consumes both lists; on f         *)
(* followed by k lists it wraps min(k, 2) of them and leaves the others    *)
(* unconsumed.                                                             *)
(***************************************************************************)
C9_TwoWraps ==
    (entry = "parse_expr" /\ Finished /\ tokens[1] = V("f")) =>
        \A k \in 0..MaxCalls :
            tokens = Calls(k) =>
                /\ status = "done" /\ err = NoErr
                /\ ret = NestedCall(IF k < 2 THEN k ELSE 2)
                /\ pos = 2 + 2 * (IF k < 2 THEN k ELSE 2)

\* f()()() has been parsed to Call(Call(f, []), []) with the third list left
C9_Witness ==
    /\ entry = "parse_expr"
    /\ tokens = Calls(3)
    /\ status = "done"
    /\ ret = Call(Call(Identifier("f"), <<>>), <<>>)
    /\ pos = 6 /\ ~eof(pos)

(***************************************************************************)
(* C10: parse_toplevel ends, for every token stream, either returning an   *)
(* AST with every token consumed or aborted by a diagnostic with nothing   *)
(* returned; and no loop of parse_toplevel or delimited comes round        *)
(* without a token consumed.                                               *)
(***************************************************************************)
LoopProgress ==
    (status = "running" /\ top.fn \in {"parse_toplevel", "delimited"} /\ top.pc = "loop") =>
        pos > top.mark

Outcome ==
    (entry = "parse_toplevel" /\ Finished) =>
        \/ status = "done" /\ err = NoErr /\ AllConsumed /\ ret.t = "AST"
        \/ status = "error" /\ err # NoErr /\ ret = Null

C10_Terminates == [](LoopProgress /\ Outcome) /\ <>Finished

\* `{ 1 }` at top level: the loop of delimited has come round after its
\* first item, with tokens consumed since
C10_Witness ==
    /\ entry = "parse_toplevel"
    /\ tokens = <<P("{"), N(1), P("}")>>
    /\ status = "running"
    /\ top.fn = "delimited" /\ top.pc = "loop"
    /\ top.mark > 0 /\ pos > top.mark

====
